---- MODULE Spec2Model ----
(***************************************************************************)
(* A model of the two scripts of the repository:                           *)
(*   scripts/detections2images.py     (class ImageGenerator)               *)
(*   scripts/extract_learning_curve.py (class LearningCurvePlotter)        *)
(* The scripts are Python 2 programs (dict.keys() is a list that is sorted *)
(* in place). Each script is a sequential program; the two share nothing,  *)
(* so each has a specification of its own over its own variables.          *)
(***************************************************************************)
EXTENDS Integers, Sequences, FiniteSets, TLC

(***************************************************************************)
(*                        detections2images.py                             *)
(***************************************************************************)

\* Bounds of the model of detections2images.py.
MaxKeys   == 2      \* images in the detections file
MaxOffset == 2      \* --offset
MaxLength == 2      \* --length
MaxConf   == 1      \* confidences are ticks 0..MaxConf

\* The path separator os.path.basename splits at ('/' = 47, below the letters).
Slash == 47

\* Image paths (keys of the detections file) as sequences of character
\* codes: "a", "ab", "b", "b/a".
KeyUniverse == { <<97>>, <<97, 98>>, <<98>>, <<98, Slash, 97>> }

\* COLORS: category -> the six hexadecimal digits of '#RRGGBB'.
COLORS == [ car    |-> <<3, 3, 9, 9, 15, 15>>,
            person |-> <<15, 15, 3, 3, 12, 12>> ]

\* hex2bgr: '#RRGGBB' -> (B, G, R).
hex2bgr(hex) == << hex[5] * 16 + hex[6], hex[3] * 16 + hex[4], hex[1] * 16 + hex[2] >>

\* self.detections_mapping = LMM.get_mapping(detections_mapping): a dict from
\* the labels of the detections file to categories. "lorry" maps to a
\* category that has no colour; "cyclist" (below) is not in the mapping.
detections_mapping == [ vehicle |-> "car", pedestrian |-> "person", lorry |-> "truck" ]

Labels == { "vehicle", "lorry", "cyclist" }

\* A detection record (bb): only the fields the script reads to decide.
Detection == [ confidence : 0..MaxConf, label : Labels ]

\* The detection lists of an image: no, one or two detections.
DetLists ==
    { <<>> } \cup { <<d>> : d \in Detection } \cup { <<d, e>> : d \in Detection, e \in Detection }

\* Python's comparison of two str: the first differing character decides,
\* a proper prefix is smaller.
RECURSIVE LexLess(_, _)
LexLess(s, t) ==
    IF s = <<>> THEN t # <<>>
    ELSE IF t = <<>> THEN FALSE
    ELSE IF Head(s) # Head(t) THEN Head(s) < Head(t)
    ELSE LexLess(Tail(s), Tail(t))

\* list.sort() of a list of distinct keys.
RECURSIVE SortKeys(_)
SortKeys(S) ==
    IF S = {} THEN <<>>
    ELSE LET least == CHOOSE k \in S : \A o \in S \ {k} : LexLess(k, o)
         IN  <<least>> \o SortKeys(S \ {least})

\* _create_sorted_sequence: the keys of iml_detections, sorted.
create_sorted_sequence(K) == SortKeys(K)

\* os.path.basename: what follows the last '/'.
RECURSIVE basename(_)
basename(p) ==
    IF p = <<>> THEN <<>>
    ELSE IF \E k \in 1..Len(p) : p[k] = Slash
         THEN basename(Tail(p))
         ELSE p

\* filename_out = os.path.join(path_out, os.path.basename(filename))
filename_out(filename) == [ name |-> basename(filename), ext |-> "" ]
\* os.path.splitext(filename_out)[0] + '_xz.pdf'
filename_xz(filename) == [ name |-> basename(filename), ext |-> "_xz.pdf" ]

VARIABLES
    confidence,     \* self.confidence
    offset,         \* self.offset
    max_length,     \* self.max_length
    pgps,           \* <<>> (self.pgps is None), or <<the keys of self.pgps>>
    file_sequence,  \* self.file_sequence
    i,              \* generate_images: the loop index (0-based)
    length,         \* generate_images: the local length
    filename,       \* generate_images: the current key (<<>>: none yet)
    bbs,            \* _plot_bboxes: self.iml_detections[filename]
    image,          \* the raster image: the boxes drawn into it, in order
    plan,           \* the plan-view plot: the boxes drawn since plt.cla()
    processed,      \* the keys announced by 'Processing frame', in order
    writes,         \* the files written (cv2.imwrite, plt.savefig), in order
    pcA             \* "run" | "done" | "exit2" | "KeyError"

varsA == << confidence, offset, max_length, pgps, file_sequence, i, length,
            filename, bbs, image, plan, processed, writes, pcA >>

\* The state of extract_learning_curve.py (modelled below).
VARIABLES
    iters_valid,    \* self.iters_valid
    losses_valid,   \* self.losses_valid: metric name -> values
    iters_train,    \* self.iters_train
    losses_train,   \* self.losses_train: metric name -> values
    line,           \* _process_log_file: the line read last (<<>>: none)
    nread,          \* lines read so far
    skip,           \* plot_and_save: the argument skip
    si_train,       \* plot_and_save: the skip indices
    si_valid,
    plots,          \* the plt.plot calls made, in order
    saved,          \* whether the .pdf and the .png were saved
    csv,            \* the .csv file: its header and its rows
    warnings,       \* the iterations warned about, in order
    pcB             \* "scan" | "scanned" | "done" | an exception's name

varsB == << iters_valid, losses_valid, iters_train, losses_train, line, nread,
            skip, si_train, si_valid, plots, saved, csv, warnings, pcB >>

\* The state of a call of get_path_to_image (modelled below).
VARIABLES
    path_image,     \* the argument path_image
    path_datasets,  \* <<>> (path_datasets is None), or <<the argument>>
    returned,       \* <<>> (not returned yet), or <<the value returned>>
    pcC             \* "call" | "returned"

varsC == << path_image, path_datasets, returned, pcC >>

vars == << varsA, varsB, varsC >>

\* One box drawn: the detection and the colour of its class.
Box(bb, color) == [ bb |-> bb, color |-> color ]

\* A variant of qualifies: the comparison is strict.
qualifies_strict(bb, t) == bb.confidence > t

\* if bb.confidence >= self.confidence: (in the 3D and in the 2D branch)
qualifies(bb, t) == bb.confidence >= t

\* A variant of lookup_color: a label without a colour gets the colour of 'car'
\* (dict.get with a default) instead of raising KeyError.
lookup_color_default(label) ==
    IF label \notin DOMAIN detections_mapping THEN << COLORS["car"] >>
    ELSE IF detections_mapping[label] \notin DOMAIN COLORS THEN << COLORS["car"] >>
    ELSE << COLORS[detections_mapping[label]] >>

\* COLORS[self.detections_mapping[bb.label]] as <<colour>>; <<>> when one of
\* the two dict lookups raises KeyError.
lookup_color(label) ==
    IF label \notin DOMAIN detections_mapping THEN <<>>
    ELSE IF detections_mapping[label] \notin DOMAIN COLORS THEN <<>>
    ELSE << COLORS[detections_mapping[label]] >>

\* The 2D branch of _plot_bboxes: for bb in bbs, from detection j on, the
\* boxes drawn so far in img.
RECURSIVE plot_2d(_, _, _, _)
plot_2d(dets, j, img, t) ==
    IF j > Len(dets) THEN [ status |-> "ok", image |-> img, plan |-> <<>> ]
    ELSE LET bb == dets[j] IN
         IF qualifies(bb, t)
         THEN IF lookup_color(bb.label) = <<>>
              THEN [ status |-> "KeyError", image |-> img, plan |-> <<>> ]
              ELSE plot_2d(dets, j + 1,
                           Append(img, Box(bb, hex2bgr(lookup_color(bb.label)[1]))), t)
         ELSE plot_2d(dets, j + 1, img, t)

\* The loop of the 3D branch of _plot_bboxes, after the PGP was found: each
\* qualifying detection is drawn on the plan view (class colour as given in
\* COLORS) and into the image (class colour as BGR). The colour is looked
\* up before anything of the box is drawn.
RECURSIVE plot_3d(_, _, _, _, _)
plot_3d(dets, j, img, pl, t) ==
    IF j > Len(dets) THEN [ status |-> "ok", image |-> img, plan |-> pl ]
    ELSE LET bb == dets[j] IN
         IF qualifies(bb, t)
         THEN IF lookup_color(bb.label) = <<>>
              THEN [ status |-> "KeyError", image |-> img, plan |-> pl ]
              ELSE plot_3d(dets, j + 1,
                           Append(img, Box(bb, hex2bgr(lookup_color(bb.label)[1]))),
                           Append(pl, Box(bb, lookup_color(bb.label)[1])), t)
         ELSE plot_3d(dets, j + 1, img, pl, t)

\* A variant of has_pgp: the check is left out.
has_pgp_unchecked(file, records) == TRUE

\* Whether the 3D branch finds the PGP of the file (otherwise exit(2)).
has_pgp(file, records) == file \in records[1]

\* _plot_bboxes(image, filename) on a freshly read image.
plot_bboxes(dets, file, records, t) ==
    IF records # <<>>
    THEN IF ~ has_pgp(file, records)
         THEN [ status |-> "exit2", image |-> <<>>, plan |-> <<>> ]
         ELSE plot_3d(dets, 1, <<>>, <<>>, t)
    ELSE plot_2d(dets, 1, <<>>, t)

\* The files generate_images writes for a frame whose boxes were plotted.
frame_writes(file, records) ==
    IF records # <<>>
    THEN << [ file |-> filename_out(file), src |-> file ],
            [ file |-> filename_xz(file), src |-> file ] >>
    ELSE << [ file |-> filename_out(file), src |-> file ] >>

\* The value of the local length after a frame: no statement of the loop
\* assigns it.
length_after_frame(n) == n

\* ImageGenerator.__init__ and the head of generate_images.
InitA ==
    /\ confidence \in 0..MaxConf
    /\ offset \in 0..MaxOffset
    /\ max_length \in 0..MaxLength
    /\ \E K \in SUBSET KeyUniverse :
          /\ Cardinality(K) <= MaxKeys
          /\ file_sequence = create_sorted_sequence(K)
          /\ pgps \in { <<>> } \cup { <<P>> : P \in SUBSET K }
    /\ i = 0
    /\ length = 0
    /\ filename = <<>>
    /\ bbs = <<>>
    /\ image = <<>>
    /\ plan = <<>>
    /\ processed = <<>>
    /\ writes = <<>>
    /\ pcA = "run"

\* if i < self.offset: continue
Continue ==
    /\ pcA = "run"
    /\ i < Len(file_sequence)
    /\ i < offset
    /\ i' = i + 1
    /\ UNCHANGED << confidence, offset, max_length, pgps, file_sequence, length,
                    filename, bbs, image, plan, processed, writes, pcA >>
    /\ UNCHANGED << varsB, varsC >>

\* if length >= self.max_length: break
Break ==
    /\ pcA = "run"
    /\ i < Len(file_sequence)
    /\ i >= offset
    /\ length >= max_length
    /\ pcA' = "done"
    /\ UNCHANGED << confidence, offset, max_length, pgps, file_sequence, i, length,
                    filename, bbs, image, plan, processed, writes >>
    /\ UNCHANGED << varsB, varsC >>

\* The rest of the loop body for frame i. The detections of the image are
\* read from iml_detections here and nowhere else, so they are drawn here.
ProcessFrame ==
    /\ pcA = "run"
    /\ i < Len(file_sequence)
    /\ i >= offset
    /\ length < max_length
    /\ \E dets \in DetLists :
         LET file == file_sequence[i + 1]
             r    == plot_bboxes(dets, file, pgps, confidence)
         IN  /\ filename' = file
             /\ processed' = Append(processed, file)
             /\ bbs' = dets
             /\ image' = r.image
             /\ plan' = r.plan
             /\ IF r.status = "ok"
                THEN /\ writes' = writes \o frame_writes(file, pgps)
                     /\ length' = length_after_frame(length)
                     /\ i' = i + 1
                     /\ pcA' = "run"
                ELSE /\ pcA' = r.status
                     /\ UNCHANGED << writes, length, i >>
    /\ UNCHANGED << confidence, offset, max_length, pgps, file_sequence >>
    /\ UNCHANGED << varsB, varsC >>

\* range(len(self.file_sequence)) is exhausted: generate_images returns.
LoopEnd ==
    /\ pcA = "run"
    /\ i = Len(file_sequence)
    /\ pcA' = "done"
    /\ UNCHANGED << confidence, offset, max_length, pgps, file_sequence, i, length,
                    filename, bbs, image, plan, processed, writes >>
    /\ UNCHANGED << varsB, varsC >>

NextA == Continue \/ Break \/ ProcessFrame \/ LoopEnd

(***************************************************************************)
(*                      extract_learning_curve.py                          *)
(***************************************************************************)

\* Bounds of the model of extract_learning_curve.py.
MaxLines   == 4     \* lines of the log
MaxIter    == 2     \* iteration numbers are 1..MaxIter
MaxSkip    == 1     \* --skip is 0..MaxSkip
MaxMetrics == 7     \* metrics of a log whose plot is checked on its own

\* Metric names as sequences of character codes: "loss", "loss_x2" and
\* "loss0" .. "loss9" (all match loss_?x?[0-9]*).
loss    == << 108, 111, 115, 115 >>
loss_x2 == << 108, 111, 115, 115, 95, 120, 50 >>
loss_n(k) == loss \o << 48 + k >>

\* The value token of a net-output line: a plain decimal ("1"), a decimal
\* with an exponent ("1e-05", as Caffe prints small values), "nan" or "-nan".
Tok(kind, digits) == [ kind |-> kind, digits |-> digits ]
Tokens == { Tok("dec", 1), Tok("sci", 1), Tok("nan", 0), Tok("-nan", 0) }

\* A float: NaN, or mant * 10^exp.
Float(mant, exp) == [ nan |-> FALSE, mant |-> mant, exp |-> exp ]
NaN == [ nan |-> TRUE, mant |-> 0, exp |-> 0 ]

\* The number a value token denotes.
token_value(tok) ==
    CASE tok.kind = "dec" -> Float(tok.digits, 0)
      [] tok.kind = "sci" -> Float(tok.digits, -5)
      [] OTHER            -> NaN

\* float(m.group(2)) of a captured text: a plain decimal, "nan" or "-nan".
float(text) == IF text.kind = "dec" THEN Float(text.digits, 0) ELSE NaN

\* A line of the log, by the parts of it the four patterns look at; each part
\* is absent (<<>>) or present once (<<x>>):
\*   testing   " Iteration n, Testing net "
\*   test_out  " Test net output ... name = token ..."
\*   display   " Iteration n (...iters...), loss = "
\*   train_out " Train net output ... name = token..."
Line(t, vo, d, to) == [ testing |-> t, test_out |-> vo, display |-> d, train_out |-> to ]
Out(name, tok) == << [ name |-> name, tok |-> tok ] >>

Iters == 1..MaxIter

\* The name and the value of the net-output lines of the logs checked.
Outputs == { Out(loss, t) : t \in Tokens } \cup { Out(loss_x2, Tok("dec", 1)) }

\* Lines as Caffe prints them (one part each), and a line with none.
PlainLines ==
    { Line(<<n>>, <<>>, <<>>, <<>>) : n \in Iters }
    \cup { Line(<<>>, o, <<>>, <<>>) : o \in Outputs }
    \cup { Line(<<>>, <<>>, <<n>>, <<>>) : n \in Iters }
    \cup { Line(<<>>, <<>>, <<>>, o) : o \in Outputs }
    \cup { Line(<<>>, <<>>, <<>>, <<>>) }

\* Lines on which more than one pattern matches.
MixedLines ==
    { Line(<<1>>, Out(loss, Tok("dec", 1)), <<>>, <<>>),
      Line(<<1>>, <<>>, <<2>>, <<>>),
      Line(<<>>, Out(loss, Tok("nan", 0)), <<>>, Out(loss_x2, Tok("dec", 1))),
      Line(<<>>, <<>>, <<2>>, Out(loss, Tok("dec", 1))) }

Lines == PlainLines \cup MixedLines

\* re.match(r'.* Iteration ([0-9]+), Testing net .*', line): int(group 1).
match_testing(l) == l.testing

\* re.match(r'.* Test net output .* (loss_?x?[0-9]*) = ([0-9]+(\.[0-9]+)?|nan|-nan) .*', line):
\* the value must be followed by a space, so a decimal that goes on with an
\* exponent does not match.
match_test_out(l) ==
    IF l.test_out # <<>> /\ l.test_out[1].tok.kind # "sci"
    THEN << [ name |-> l.test_out[1].name, text |-> l.test_out[1].tok ] >>
    ELSE <<>>

\* re.match(r'.* Iteration ([0-9]+) \(.*iters.*\), loss = .*', line)
match_display(l) == l.display

\* re.match(r'.* Train net output .* (loss\_?x?[0-9]*) = ([0-9]+(\.[0-9]+)?|nan|-nan).*', line):
\* anything may follow the value, so of a decimal with an exponent the
\* decimal alone is captured.
match_train_out(l) ==
    IF l.train_out # <<>>
    THEN << [ name |-> l.train_out[1].name,
              text |-> IF l.train_out[1].tok.kind = "sci"
                       THEN Tok("dec", l.train_out[1].tok.digits)
                       ELSE l.train_out[1].tok ] >>
    ELSE <<>>

\* if loss_name not in d.keys(): d[loss_name] = []
\* d[loss_name].append(v)
dict_append(d, k, v) ==
    [ x \in DOMAIN d \cup {k} |->
        IF x = k THEN Append(IF k \in DOMAIN d THEN d[k] ELSE <<>>, v) ELSE d[x] ]

\* The four accumulators as one record.
Acc(iv, lv, it, lt) ==
    [ iters_valid |-> iv, losses_valid |-> lv, iters_train |-> it, losses_train |-> lt ]

\* A variant of process_line without the `continue` statements: every
\* pattern that matches appends.
process_line_no_continue(a, l) ==
    LET a1 == IF match_testing(l) # <<>>
              THEN [ a EXCEPT !.iters_valid = Append(@, match_testing(l)[1]) ] ELSE a
        a2 == IF match_test_out(l) # <<>>
              THEN [ a1 EXCEPT !.losses_valid =
                       dict_append(@, match_test_out(l)[1].name, float(match_test_out(l)[1].text)) ]
              ELSE a1
        a3 == IF match_display(l) # <<>>
              THEN [ a2 EXCEPT !.iters_train = Append(@, match_display(l)[1]) ] ELSE a2
    IN  IF match_train_out(l) # <<>>
        THEN [ a3 EXCEPT !.losses_train =
                 dict_append(@, match_train_out(l)[1].name, float(match_train_out(l)[1].text)) ]
        ELSE a3

\* The body of the loop of _process_log_file for one line: the first pattern
\* that matches appends, and `continue` ends the body.
process_line(a, l) ==
    IF match_testing(l) # <<>>
    THEN [ a EXCEPT !.iters_valid = Append(@, match_testing(l)[1]) ]
    ELSE IF match_test_out(l) # <<>>
    THEN [ a EXCEPT !.losses_valid =
             dict_append(@, match_test_out(l)[1].name, float(match_test_out(l)[1].text)) ]
    ELSE IF match_display(l) # <<>>
    THEN [ a EXCEPT !.iters_train = Append(@, match_display(l)[1]) ]
    ELSE IF match_train_out(l) # <<>>
    THEN [ a EXCEPT !.losses_train =
             dict_append(@, match_train_out(l)[1].name, float(match_train_out(l)[1].text)) ]
    ELSE a

\* The skip index of plot_and_save for one iteration sequence:
\*   si = 0
\*   if skip > 0:
\*       for i in range(len(iters)):
\*           if iters[i] > skip: break
\*           si = i
RECURSIVE skip_loop(_, _, _, _)
skip_loop(iters, k, si, s) ==
    IF k >= Len(iters) THEN si
    ELSE IF iters[k + 1] > s THEN si
    ELSE skip_loop(iters, k + 1, k, s)

skip_index(iters, s) == IF s > 0 THEN skip_loop(iters, 0, 0, s) ELSE 0

\* seq[si:]
slice_from(seq, si) == SubSeq(seq, si + 1, Len(seq))

\* colors = ['#3399FF', '#FF3300', '#40BF0D', '#FFE300', '#FF33CC', '#000000']
colors == << "#3399FF", "#FF3300", "#40BF0D", "#FFE300", "#FF33CC", "#000000" >>

\* One plt.plot call.
Plot(ln, kind, color, xs, ys) ==
    [ label |-> << ln, kind >>, color |-> color, xs |-> xs, ys |-> ys ]

\* for i in range(len(skeys)): plt.plot(iters_train[si_train:],
\*     losses_train[ln][si_train:], label=ln+' train', color=colors[i])
\* from index k (0-based) on. colors[i] past the end of the list raises
\* IndexError; plt.plot of an x and a y of different lengths raises ValueError.
RECURSIVE plot_train(_, _, _, _, _, _)
plot_train(skeys, k, done, it, lt, si) ==
    IF k >= Len(skeys) THEN [ status |-> "ok", plots |-> done ]
    ELSE LET ln == skeys[k + 1]
             xs == slice_from(it, si)
             ys == slice_from(lt[ln], si)
         IN  IF k >= Len(colors) THEN [ status |-> "IndexError", plots |-> done ]
             ELSE IF Len(xs) # Len(ys) THEN [ status |-> "ValueError", plots |-> done ]
             ELSE plot_train(skeys, k + 1,
                             Append(done, Plot(ln, "train", colors[k + 1], xs, ys)), it, lt, si)

\* for i in range(len(skeys)): plt.plot(iters_valid[si_valid:],
\*     losses_valid[ln][si_valid:], label=ln+' valid', color=colors[i], ...)
\* losses_valid[ln] of a metric without validation values raises KeyError.
RECURSIVE plot_valid(_, _, _, _, _, _)
plot_valid(skeys, k, done, iv, lv, si) ==
    IF k >= Len(skeys) THEN [ status |-> "ok", plots |-> done ]
    ELSE LET ln == skeys[k + 1] IN
         IF ln \notin DOMAIN lv THEN [ status |-> "KeyError", plots |-> done ]
         ELSE IF k >= Len(colors) THEN [ status |-> "IndexError", plots |-> done ]
         ELSE LET xs == slice_from(iv, si)
                  ys == slice_from(lv[ln], si)
              IN  IF Len(xs) # Len(ys) THEN [ status |-> "ValueError", plots |-> done ]
                  ELSE plot_valid(skeys, k + 1,
                                  Append(done, Plot(ln, "valid", colors[k + 1], xs, ys)),
                                  iv, lv, si)

\* self.iters_train.index(x): the first position (0-based) of x, as <<p>>;
\* <<>> when x is not in the list (ValueError).
list_index(seq, x) ==
    IF \E p \in 1..Len(seq) : seq[p] = x
    THEN << (CHOOSE p \in 1..Len(seq) : seq[p] = x /\ \A q \in 1..(p - 1) : seq[q] # x) - 1 >>
    ELSE <<>>

\* The columns of one row: for key in skeys, ' %f %f' of
\* losses_train[key][i_train] and losses_valid[key][i], from key k on.
RECURSIVE row_values(_, _, _, _, _, _, _)
row_values(skeys, k, vals, lt, lv, i_train, i_valid) ==
    IF k >= Len(skeys) THEN [ status |-> "ok", vals |-> vals ]
    ELSE LET key == skeys[k + 1] IN
         IF i_train >= Len(lt[key]) THEN [ status |-> "IndexError", vals |-> vals ]
         ELSE IF key \notin DOMAIN lv THEN [ status |-> "KeyError", vals |-> vals ]
         ELSE IF i_valid >= Len(lv[key]) THEN [ status |-> "IndexError", vals |-> vals ]
         ELSE row_values(skeys, k + 1,
                         vals \o << lt[key][i_train + 1], lv[key][i_valid + 1] >>,
                         lt, lv, i_train, i_valid)

\* The rows of the .csv: for i in range(len(self.iters_valid)), from i on.
\* An exception other than the ValueError of index() leaves the row begun.
RECURSIVE csv_rows(_, _, _, _, _)
csv_rows(a, skeys, i_valid, rows, warned) ==
    IF i_valid >= Len(a.iters_valid)
    THEN [ status |-> "ok", rows |-> rows, warnings |-> warned ]
    ELSE LET it == a.iters_valid[i_valid + 1]
             at == list_index(a.iters_train, it)
         IN  IF at = <<>>
             THEN csv_rows(a, skeys, i_valid + 1, rows, Append(warned, it))
             ELSE LET r == row_values(skeys, 0, <<>>, a.losses_train, a.losses_valid,
                                      at[1], i_valid)
                      row == [ iter |-> it, vals |-> r.vals ]
                  IN  IF r.status = "ok"
                      THEN csv_rows(a, skeys, i_valid + 1, Append(rows, row), warned)
                      ELSE [ status |-> r.status, rows |-> Append(rows, row),
                             warnings |-> warned ]

\* The header of the .csv: 'iter', then key_train and key_valid per metric.
RECURSIVE csv_header(_)
csv_header(skeys) ==
    IF skeys = <<>> THEN <<>>
    ELSE << << Head(skeys), "train" >>, << Head(skeys), "valid" >> >> \o csv_header(Tail(skeys))

NoCsv == [ open |-> FALSE, header |-> <<>>, rows |-> <<>> ]

\* plot_and_save(path_out, skip, ylimit) on the accumulators a.
plot_and_save(a, s) ==
    LET sit   == skip_index(a.iters_train, s)
        siv   == skip_index(a.iters_valid, s)
        skeys == SortKeys(DOMAIN a.losses_train)
        pt    == plot_train(skeys, 0, <<>>, a.iters_train, a.losses_train, sit)
        pv    == IF Len(a.iters_valid) > 0
                 THEN plot_valid(skeys, 0, pt.plots, a.iters_valid, a.losses_valid, siv)
                 ELSE pt
        rows  == csv_rows(a, skeys, 0, <<>>, <<>>)
        base  == [ si_train |-> sit, si_valid |-> siv, saved |-> FALSE, csv |-> NoCsv,
                   warnings |-> <<>> ]
    IN  IF pt.status # "ok"
        THEN base @@ [ status |-> pt.status, plots |-> pt.plots ]
        ELSE IF pv.status # "ok"
        THEN base @@ [ status |-> pv.status, plots |-> pv.plots ]
        ELSE [ status   |-> IF rows.status = "ok" THEN "done" ELSE rows.status,
               si_train |-> sit,
               si_valid |-> siv,
               plots    |-> pv.plots,
               saved    |-> TRUE,
               csv      |-> [ open |-> TRUE, header |-> csv_header(skeys), rows |-> rows.rows ],
               warnings |-> rows.warnings ]

\* The variables of the other script, which never runs.
IdleA ==
    /\ confidence = 0
    /\ offset = 0
    /\ max_length = 0
    /\ pgps = <<>>
    /\ file_sequence = <<>>
    /\ i = 0
    /\ length = 0
    /\ filename = <<>>
    /\ bbs = <<>>
    /\ image = <<>>
    /\ plan = <<>>
    /\ processed = <<>>
    /\ writes = <<>>
    /\ pcA = "idle"

\* No call of get_path_to_image is modelled.
IdleC ==
    /\ path_image = <<>>
    /\ path_datasets = <<>>
    /\ returned = <<>>
    /\ pcC = "idle"

\* What plot_and_save has not set before it is called.
NotPlotted ==
    /\ skip = 0
    /\ si_train = 0
    /\ si_valid = 0
    /\ plots = <<>>
    /\ saved = FALSE
    /\ csv = NoCsv
    /\ warnings = <<>>

\* LearningCurvePlotter.__init__ up to the call of _process_log_file.
InitB ==
    /\ iters_valid = <<>>
    /\ losses_valid = <<>>
    /\ iters_train = <<>>
    /\ losses_train = <<>>
    /\ line = <<>>
    /\ nread = 0
    /\ NotPlotted
    /\ pcB = "scan"

IdleB ==
    /\ iters_valid = <<>>
    /\ losses_valid = <<>>
    /\ iters_train = <<>>
    /\ losses_train = <<>>
    /\ line = <<>>
    /\ nread = 0
    /\ NotPlotted
    /\ pcB = "idle"

\* for line in infile: one line is read and processed.
ProcessLine ==
    /\ pcB = "scan"
    /\ nread < MaxLines
    /\ \E l \in Lines :
         LET a == process_line(Acc(iters_valid, losses_valid, iters_train, losses_train), l)
         IN  /\ line' = << l >>
             /\ iters_valid' = a.iters_valid
             /\ losses_valid' = a.losses_valid
             /\ iters_train' = a.iters_train
             /\ losses_train' = a.losses_train
    /\ nread' = nread + 1
    /\ UNCHANGED << skip, si_train, si_valid, plots, saved, csv, warnings, pcB >>
    /\ UNCHANGED << varsA, varsC >>

\* The end of the file: _process_log_file returns (its local line is gone),
\* the object is constructed.
EndOfLog ==
    /\ pcB = "scan"
    /\ pcB' = "scanned"
    /\ line' = <<>>
    /\ UNCHANGED << iters_valid, losses_valid, iters_train, losses_train, nread,
                    skip, si_train, si_valid, plots, saved, csv, warnings >>
    /\ UNCHANGED << varsA, varsC >>

\* main: plotter.plot_and_save(args.path_out, args.skip, args.ylimit)
PlotAndSave ==
    /\ pcB = "scanned"
    /\ \E s \in 0..MaxSkip :
         LET r == plot_and_save(Acc(iters_valid, losses_valid, iters_train, losses_train), s)
         IN  /\ skip' = s
             /\ si_train' = r.si_train
             /\ si_valid' = r.si_valid
             /\ plots' = r.plots
             /\ saved' = r.saved
             /\ csv' = r.csv
             /\ warnings' = r.warnings
             /\ pcB' = r.status
    /\ UNCHANGED << iters_valid, losses_valid, iters_train, losses_train, line, nread >>
    /\ UNCHANGED << varsA, varsC >>

NextB == ProcessLine \/ EndOfLog \/ PlotAndSave

\* extract_learning_curve.py on a log of at most MaxLines lines.
InitLog == InitB /\ IdleA /\ IdleC
SpecLog == InitLog /\ [][NextB]_vars

\* The metric names of the logs whose plot is checked on its own.
PaletteMetrics == { loss_n(k) : k \in 0..(MaxMetrics - 1) }

\* A constructed LearningCurvePlotter whose log had one training iteration
\* with one 'Train net output' line for each metric of M and, when the log
\* had a test phase, one validation iteration with one 'Test net output'
\* line for each metric of M.
InitPalette ==
    /\ \E M \in SUBSET PaletteMetrics : \E tested \in BOOLEAN :
          /\ iters_train = << 1 >>
          /\ losses_train = [ m \in M |-> << Float(1, 0) >> ]
          /\ iters_valid = IF tested THEN << 1 >> ELSE <<>>
          /\ losses_valid = IF tested THEN [ m \in M |-> << NaN >> ] ELSE <<>>
          /\ nread = 1 + Cardinality(M) + (IF tested THEN 1 + Cardinality(M) ELSE 0)
    /\ line = <<>>
    /\ NotPlotted
    /\ pcB = "scanned"
    /\ IdleA
    /\ IdleC

\* plot_and_save on logs of up to MaxMetrics metrics.
SpecPalette == InitPalette /\ [][PlotAndSave]_vars

\* detections2images.py.
InitImages == InitA /\ IdleB /\ IdleC
SpecImages == InitImages /\ [][NextA]_vars

(***************************************************************************)
(*               detections2images.py: get_path_to_image                   *)
(***************************************************************************)

\* Bound of the paths get_path_to_image is applied to.
MaxPieces == 3      \* a path is made of at most MaxPieces pieces

\* '/datasets/' as character codes.
datasets_marker == << Slash, 100, 97, 116, 97, 115, 101, 116, 115, Slash >>

\* The pieces the paths are made of: '/datasets/', 'a', '/', 'datasets/'
\* and '/datasets'.
Pieces ==
    { datasets_marker,
      << 97 >>,
      << Slash >>,
      Tail(datasets_marker),
      SubSeq(datasets_marker, 1, Len(datasets_marker) - 1) }

\* The paths of at most n pieces.
RECURSIVE PathsOf(_)
PathsOf(n) ==
    IF n = 0 THEN { <<>> }
    ELSE PathsOf(n - 1) \cup { p \o q : p \in PathsOf(n - 1), q \in Pieces }

Paths == PathsOf(MaxPieces)

\* path_datasets: None, '/r' or '/r/' (an existing folder, checked by
\* parse_arguments).
Roots == { <<>>, << << Slash, 114 >> >>, << << Slash, 114, Slash >> >> }

\* s.find(sub): the lowest index (0-based) at which sub occurs in s, -1 when
\* it does not occur.
find(s, sub) ==
    LET At(k) == k + Len(sub) <= Len(s) /\ SubSeq(s, k + 1, k + Len(sub)) = sub
    IN  IF \E k \in 0..Len(s) : At(k)
        THEN CHOOSE k \in 0..Len(s) : At(k) /\ \A h \in 0..(k - 1) : ~At(h)
        ELSE -1

\* os.path.join(a, b) of two POSIX paths: b alone when b is absolute,
\* otherwise a and b with one '/' between them unless a is empty or ends
\* with '/'.
join(a, b) ==
    IF b # <<>> /\ Head(b) = Slash THEN b
    ELSE IF a = <<>> \/ a[Len(a)] = Slash THEN a \o b
    ELSE a \o << Slash >> \o b

\* get_path_to_image(path_image, path_datasets)
get_path_to_image(p, root) ==
    IF root # <<>>
    THEN LET pos == find(p, datasets_marker) + 1
         IN  IF pos >= 0 THEN join(root[1], slice_from(p, pos)) ELSE p
    ELSE p

\* A call of get_path_to_image with any of the paths and roots.
InitC ==
    /\ path_image \in Paths
    /\ path_datasets \in Roots
    /\ returned = <<>>
    /\ pcC = "call"

\* The call returns.
GetPathToImage ==
    /\ pcC = "call"
    /\ returned' = << get_path_to_image(path_image, path_datasets) >>
    /\ pcC' = "returned"
    /\ UNCHANGED << path_image, path_datasets >>
    /\ UNCHANGED << varsA, varsB >>

InitPath == InitC /\ IdleA /\ IdleB
SpecPath == InitPath /\ [][GetPathToImage]_vars

(***************************************************************************)
(*                    Properties of detections2images.py                   *)
(***************************************************************************)

Min(a, b) == IF a <= b THEN a ELSE b

IsPrefix(s, t) == Len(s) <= Len(t) /\ s = SubSeq(t, 1, Len(s))

\* The keys at positions [offset, min(offset + length, |K|)) of the sorted keys.
Window == SubSeq(file_sequence, offset + 1, Min(offset + max_length, Len(file_sequence)))

\* The detections of a list that the threshold lets through, in order.
AtOrAbove(dets, t) == LET Keep(bb) == bb.confidence >= t IN SelectSeq(dets, Keep)

\* The detections drawn by a sequence of boxes.
Drawn(boxes) == [ k \in 1..Len(boxes) |-> boxes[k].bb ]

\* A label without an entry in the mapping, or mapped to a category without
\* a colour.
UnknownLabel(label) ==
    \/ label \notin DOMAIN detections_mapping
    \/ detections_mapping[label] \notin DOMAIN COLORS

\* The current frame went through _plot_bboxes and was written.
FramePlotted == processed # <<>> /\ pcA \in { "run", "done" }

\* C1: for length >= 1, generate_images processes exactly the keys at
\* positions [offset, min(offset + length, |K|)) of the sorted key list, in
\* that order: never more than length images, never a key outside the
\* window (the processed keys are at all times a prefix of the window, and
\* the whole window when generate_images returns).
C1_ProcessesExactlyTheWindow ==
    max_length >= 1 =>
        /\ IsPrefix(processed, Window)
        /\ (pcA = "done" => processed = Window)

\* C2: in 2D and in 3D mode, the boxes drawn for a processed image are
\* exactly its detections with confidence >= the threshold, in order (a
\* confidence equal to the threshold is drawn), and nothing is drawn for a
\* detection below the threshold, also in a frame that is aborted.
C2_DrawsExactlyAtOrAboveThreshold ==
    /\ \A k \in 1..Len(image) : image[k].bb.confidence >= confidence
    /\ \A k \in 1..Len(plan) : plan[k].bb.confidence >= confidence
    /\ FramePlotted =>
          /\ Drawn(image) = AtOrAbove(bbs, confidence)
          /\ Drawn(plan) = IF pgps # <<>> THEN AtOrAbove(bbs, confidence) ELSE <<>>

\* C2's case: an image was plotted in 3D mode and written; one of its
\* detections has exactly the threshold's confidence and is drawn, another is
\* below it and is not.
C2_Witness ==
    /\ FramePlotted
    /\ pgps # <<>>
    /\ Len(bbs) = 2
    /\ bbs[1].confidence < confidence
    /\ bbs[2].confidence = confidence
    /\ Drawn(image) = << bbs[2] >>

\* The writes of the files of one image.
WritesOf(file) == { k \in 1..Len(writes) : writes[k].src = file }

\* C6: in 3D mode the run stops with exit status 2 exactly when the frame
\* reached has no PGP record. At that point the frame is the first one from
\* the offset on without a PGP record, neither its raster image nor its
\* plan view is written, every earlier frame from the offset on has both
\* its files written, no later frame is processed and nothing runs any more.
C6_MissingPgpStopsTheRun ==
    /\ (pgps # <<>> /\ processed # <<>> /\ processed[Len(processed)] \notin pgps[1])
          => pcA = "exit2"
    /\ pcA = "exit2" =>
          /\ pgps # <<>>
          /\ i >= offset
          /\ filename = file_sequence[i + 1]
          /\ filename \notin pgps[1]
          /\ \A k \in (offset + 1)..i : file_sequence[k] \in pgps[1]
          /\ WritesOf(filename) = {}
          /\ processed = SubSeq(file_sequence, offset + 1, i + 1)
          /\ \A k \in (offset + 1)..i :
                /\ \E w \in WritesOf(file_sequence[k]) :
                      writes[w].file = filename_out(file_sequence[k])
                /\ \E w \in WritesOf(file_sequence[k]) :
                      writes[w].file = filename_xz(file_sequence[k])
          /\ ~ ENABLED NextA

\* C6's case: the run stopped with exit status 2 at the second frame of the
\* offset/length window, after the first frame's files were written.
C6_Witness ==
    /\ pcA = "exit2"
    /\ i = offset + 1
    /\ i < offset + max_length
    /\ Len(writes) = 2

\* Some detection at or above the threshold has an unknown label.
UnknownLabelDrawn == \E j \in 1..Len(bbs) : bbs[j].confidence >= confidence /\ UnknownLabel(bbs[j].label)

\* The detections before the first one at or above the threshold with an
\* unknown label.
BeforeUnknown ==
    LET first == CHOOSE j \in 1..Len(bbs) :
                    /\ bbs[j].confidence >= confidence /\ UnknownLabel(bbs[j].label)
                    /\ \A h \in 1..(j - 1) :
                          ~ (bbs[h].confidence >= confidence /\ UnknownLabel(bbs[h].label))
    IN  SubSeq(bbs, 1, first - 1)

\* C7 as stated: whenever a processed image has a detection with an unknown
\* label, whatever its confidence, the run aborts with an error.
C7_AnyUnknownLabelAborts ==
    (processed # <<>> /\ \E j \in 1..Len(bbs) : UnknownLabel(bbs[j].label))
        => pcA \in { "KeyError", "exit2" }

\* C7 as amended: whenever a processed image has a detection with confidence
\* >= the threshold whose label is unknown, the run aborts with an error, in
\* 2D and in 3D mode: with exit status 2 when the PGP record is missing, and
\* otherwise with a KeyError at the first such detection, with the boxes of
\* the detections before it drawn and no file of the image written. The run
\* raises KeyError in no other case: a detection below the threshold is
\* skipped without a look at its label.
C7_UnknownLabelAtOrAboveThresholdAborts ==
    processed # <<>> =>
        /\ UnknownLabelDrawn => pcA \in { "KeyError", "exit2" }
        /\ (UnknownLabelDrawn /\ (pgps = <<>> \/ filename \in pgps[1])) => pcA = "KeyError"
        /\ pcA = "KeyError" =>
              /\ UnknownLabelDrawn
              /\ Drawn(image) = AtOrAbove(BeforeUnknown, confidence)
              /\ WritesOf(filename) = {}
              /\ ~ ENABLED NextA

\* C7's case: a KeyError stopped the run at the second detection of an
\* image, whose first detection was drawn.
C7_Witness ==
    /\ pcA = "KeyError"
    /\ Len(bbs) = 2
    /\ Len(image) = 1
    /\ UnknownLabel(bbs[2].label)

(***************************************************************************)
(*                 Properties of extract_learning_curve.py                 *)
(***************************************************************************)

\* plot_and_save has run (to its end, or to an exception).
Plotted == pcB \notin { "idle", "scan", "scanned" }

\* Every value sequence is as long as its iteration sequence.
Parallel ==
    /\ \A m \in DOMAIN losses_train : Len(losses_train[m]) = Len(iters_train)
    /\ \A m \in DOMAIN losses_valid : Len(losses_valid[m]) = Len(iters_valid)

NonDecreasing(seq) == \A k \in 1..(Len(seq) - 1) : seq[k] <= seq[k + 1]

\* The index (0-based) of the first iteration greater than s; the length of
\* the sequence when there is none.
FirstAbove(iters, s) ==
    IF \E k \in 1..Len(iters) : iters[k] > s
    THEN (CHOOSE k \in 1..Len(iters) : iters[k] > s /\ \A h \in 1..(k - 1) : iters[h] <= s) - 1
    ELSE Len(iters)

\* C3: with skip > 0, every training curve starts at the first training
\* iteration greater than skip, so that no iteration <= skip is plotted
\* (stated for chronological logs that have an iteration greater than skip).
C3_TrainingPlotStartsAboveSkip ==
    (Plotted /\ skip > 0 /\ NonDecreasing(iters_train)
       /\ \E k \in 1..Len(iters_train) : iters_train[k] > skip)
    => \A p \in 1..Len(plots) :
          plots[p].label[2] = "train" =>
              /\ plots[p].xs = slice_from(iters_train, FirstAbove(iters_train, skip))
              /\ \A k \in 1..Len(plots[p].xs) : plots[p].xs[k] > skip

\* The validation iterations that occur (do not occur) among the training
\* iterations, in order.
AlignedIters ==
    LET InTrain(n) == \E k \in 1..Len(iters_train) : iters_train[k] = n
    IN  SelectSeq(iters_valid, InTrain)
UnalignedIters ==
    LET NotInTrain(n) == \A k \in 1..Len(iters_train) : iters_train[k] # n
    IN  SelectSeq(iters_valid, NotInTrain)

\* C4: for every scanned log (stated for the logs whose value sequences are
\* parallel to their iteration sequences), plot_and_save writes the tabular
\* file with exactly one row per validation iteration that occurs among the
\* training iterations, in order, warns about every other validation
\* iteration, and does not abort.
C4_ExportWritesOneRowPerAlignedIteration ==
    (Plotted /\ Parallel) =>
        /\ pcB = "done"
        /\ csv.open
        /\ [ k \in 1..Len(csv.rows) |-> csv.rows[k].iter ] = AlignedIters
        /\ warnings = UnalignedIters

\* The line read last holds nothing but a net-output part.
OnlyTrainOut(l) == l.train_out # <<>> /\ l.testing = <<>> /\ l.test_out = <<>> /\ l.display = <<>>
OnlyTestOut(l)  == l.test_out # <<>> /\ l.testing = <<>> /\ l.display = <<>> /\ l.train_out = <<>>

\* C5: the value sequences hold the values of the metric lines: after a
\* 'Train net output' ('Test net output') line `m = v` has been read, the
\* last entry of the training (validation) value sequence of m is the value
\* v of that line, with nan kept as NaN.
C5_MetricLineValueIsRecorded ==
    line # <<>> =>
        /\ OnlyTrainOut(line[1]) =>
              /\ line[1].train_out[1].name \in DOMAIN losses_train
              /\ LET vals == losses_train[line[1].train_out[1].name]
                 IN  vals[Len(vals)] = token_value(line[1].train_out[1].tok)
        /\ OnlyTestOut(line[1]) =>
              /\ line[1].test_out[1].name \in DOMAIN losses_valid
              /\ LET vals == losses_valid[line[1].test_out[1].name]
                 IN  vals[Len(vals)] = token_value(line[1].test_out[1].tok)

\* The dict d2 is the dict d with v appended to the list of key k (a new
\* list when d has no key k), every other list as it was.
AppendedTo(d, d2, k, v) ==
    /\ DOMAIN d2 = DOMAIN d \cup {k}
    /\ d2[k] = Append(IF k \in DOMAIN d THEN d[k] ELSE <<>>, v)
    /\ \A m \in DOMAIN d \ {k} : d2[m] = d[m]

\* Every list of the dict d is a prefix of its list in d2.
DictExtends(d, d2) ==
    /\ DOMAIN d \subseteq DOMAIN d2
    /\ \A m \in DOMAIN d : IsPrefix(d[m], d2[m])

\* C8: every step leaves each accumulator a prefix of what it becomes (no
\* element is removed or reordered), and the line a step of the scan reads
\* changes at most one accumulator, by one appended element: the patterns
\* are tried in the order validation-iteration marker, validation metric
\* line, training-iteration marker, training metric line, only the first
\* that matches acts, and a line that matches none changes nothing.
C8_FirstMatchAppendsOnce ==
    [][ /\ IsPrefix(iters_valid, iters_valid')
        /\ IsPrefix(iters_train, iters_train')
        /\ DictExtends(losses_valid, losses_valid')
        /\ DictExtends(losses_train, losses_train')
        /\ nread' = nread + 1 =>
             LET l == line'[1] IN
             IF match_testing(l) # <<>>
             THEN /\ iters_valid' = Append(iters_valid, match_testing(l)[1])
                  /\ UNCHANGED << losses_valid, iters_train, losses_train >>
             ELSE IF match_test_out(l) # <<>>
             THEN /\ AppendedTo(losses_valid, losses_valid', match_test_out(l)[1].name,
                                float(match_test_out(l)[1].text))
                  /\ UNCHANGED << iters_valid, iters_train, losses_train >>
             ELSE IF match_display(l) # <<>>
             THEN /\ iters_train' = Append(iters_train, match_display(l)[1])
                  /\ UNCHANGED << iters_valid, losses_valid, losses_train >>
             ELSE IF match_train_out(l) # <<>>
             THEN /\ AppendedTo(losses_train, losses_train', match_train_out(l)[1].name,
                                float(match_train_out(l)[1].text))
                  /\ UNCHANGED << iters_valid, losses_valid, iters_train >>
             ELSE UNCHANGED << iters_valid, losses_valid, iters_train, losses_train >>
      ]_vars

\* C8's case: the second line read matches the validation metric pattern
\* and the training metric pattern; only the validation values grew.
C8_Witness ==
    /\ nread = 2
    /\ line # <<>>
    /\ match_testing(line[1]) = <<>>
    /\ match_test_out(line[1]) # <<>>
    /\ match_train_out(line[1]) # <<>>
    /\ iters_valid = << 1 >>
    /\ losses_valid = [ m \in { loss } |-> << NaN >> ]
    /\ losses_train = <<>>

\* C9: a metric of the training lines without any validation line is
\* treated as a metric with no validation values: plot_and_save completes,
\* the chart and the tabular file written (stated for the logs whose value
\* sequences are parallel to their iteration sequences).
C9_MetricWithoutValidationCompletes ==
    (Plotted /\ Parallel /\ DOMAIN losses_train \ DOMAIN losses_valid # {})
    => (pcB = "done" /\ saved /\ csv.open)

\* The position (0-based) of a metric among the sorted metric names.
MetricIndex(ln) ==
    LET skeys == SortKeys(DOMAIN losses_train)
    IN  (CHOOSE k \in 1..Len(skeys) : skeys[k] = ln) - 1

\* C10: for any number of metrics plot_and_save succeeds, with one training
\* curve per metric and, when there are validation iterations, one
\* validation curve per metric, the curves of the metric at position i of
\* the sorted names in the colour i mod 6 of the palette.
C10_PaletteCycles ==
    Plotted =>
        /\ pcB = "done"
        /\ Len(plots) = Cardinality(DOMAIN losses_train) * (IF iters_valid # <<>> THEN 2 ELSE 1)
        /\ \A p \in 1..Len(plots) :
              plots[p].color = colors[(MetricIndex(plots[p].label[1]) % Len(colors)) + 1]

(***************************************************************************)
(*                     Properties of get_path_to_image                     *)
(***************************************************************************)

\* The indices (0-based) at which '/datasets/' occurs in the path p.
MarkerAt(p) ==
    { k \in 0..Len(p) :
        /\ k + Len(datasets_marker) <= Len(p)
        /\ SubSeq(p, k + 1, k + Len(datasets_marker)) = datasets_marker }

\* The part of the path p that follows the marker found at index k.
AfterMarker(p, k) == SubSeq(p, k + Len(datasets_marker) + 1, Len(p))

\* C11: get_path_to_image returns the path unchanged when no datasets root
\* is configured; with a root R and a path that contains '/datasets/', it
\* returns R joined with the part of the path that follows the marker:
\* everything up to and including the marker is replaced by R.
C11_ReplacesThroughMarker ==
    pcC = "returned" =>
        /\ path_datasets = <<>> => returned[1] = path_image
        /\ (path_datasets # <<>> /\ MarkerAt(path_image) # {}) =>
              \E k \in MarkerAt(path_image) :
                  returned[1] = join(path_datasets[1], AfterMarker(path_image, k))

====
